---- MODULE Spec2Model ----
(***************************************************************************)
(* Model of rg11d's setup.py: a script of two statements, the import of    *)
(* distutils' setup (line 17) and one setup() call with eight literal      *)
(* keyword arguments (lines 19-27).                                        *)
(*                                                                         *)
(* Several runs of the script are modelled side by side, each started with *)
(* its own environment and command line, so that the independence of the   *)
(* declared metadata from the inputs can be stated over pairs of runs.     *)
(***************************************************************************)
EXTENDS Integers, Sequences, FiniteSets

\* ---- bounds of the model ----
NumRuns == 2
MaxEnv == 1
MaxArgs == 1

Runs == 1..NumRuns
\* the environments a run can be started in, as abstract identifiers
Envs == 0..MaxEnv
\* the distutils commands a command line can hold
Commands == {"build", "install", "sdist"}
RECURSIVE SeqsUpTo(_)
SeqsUpTo(n) == IF n = 0 THEN {<<>>}
               ELSE SeqsUpTo(n - 1) \cup
                    {Append(s, c) : s \in {t \in SeqsUpTo(n - 1) : Len(t) = n - 1}, c \in Commands}
Argvs == SeqsUpTo(MaxArgs)

\* ---- Python values: a value carries its type ----
PyStr(s) == [type |-> "str", val |-> s]
PyInt(s) == [type |-> "int", val |-> s]
PyList(q) == [type |-> "list", val |-> q]

\* ---- the literals of the setup() call, one per keyword ----
name_wrong == PyStr("warwick.observatory.rg11d")
name == PyStr("warwick.observatory.rg11")

version_int == PyInt("0")
version == PyStr("0")

packages_extra == PyList(<<PyStr("warwick.observatory.rg11"), PyStr("warwick.observatory.rg11.tests")>>)
packages == PyList(<<PyStr("warwick.observatory.rg11")>>)

author == PyStr("Paul Chote")

description_lower == PyStr("common backend code for the rg11 multiplexer daemon")
description == PyStr("Common backend code for the rg11 multiplexer daemon")

license_short == PyStr("GPLv3")
license == PyStr("GNU GPLv3")

author_email == PyStr("p.chote@warwick.ac.uk")

url == PyStr("https://github.com/warwick-one-metre/rg11d")

\* the keyword arguments of the call, as a record keyed by keyword
SetupKwargs_six ==
    [name |-> name, version |-> version, author |-> author,
     license |-> license, author_email |-> author_email, url |-> url]
SetupKwargs ==
    [name |-> name, version |-> version, packages |-> packages,
     author |-> author, description |-> description, license |-> license,
     author_email |-> author_email, url |-> url]

VARIABLES pc, namespace, calls, env, argv
vars == <<pc, namespace, calls, env, argv>>

\* A run starts at the first statement with nothing imported and no call made.
Init ==
    /\ pc = [r \in Runs |-> "import"]
    /\ namespace = [r \in Runs |-> {}]
    /\ calls = [r \in Runs |-> <<>>]
    /\ env \in [Runs -> Envs]
    /\ argv \in [Runs -> Argvs]

\* line 17: from distutils.core import setup
Import(r) ==
    /\ pc[r] = "import"
    /\ namespace' = [namespace EXCEPT ![r] = @ \cup {"setup"}]
    /\ pc' = [pc EXCEPT ![r] = "setup"]
    /\ UNCHANGED <<calls, env, argv>>

\* lines 19-27: setup(name=..., ..., url=...), the last statement of the script
Setup_env(r) ==
    /\ pc[r] = "setup"
    /\ "setup" \in namespace[r]
    /\ calls' = [calls EXCEPT ![r] = Append(@, [SetupKwargs EXCEPT !.version = PyStr(IF env[r] = 0 THEN "0" ELSE "1")])]
    /\ pc' = [pc EXCEPT ![r] = "done"]
    /\ UNCHANGED <<namespace, env, argv>>
Setup_twice(r) ==
    /\ pc[r] = "setup"
    /\ "setup" \in namespace[r]
    /\ calls' = [calls EXCEPT ![r] = Append(Append(@, SetupKwargs), SetupKwargs)]
    /\ pc' = [pc EXCEPT ![r] = "done"]
    /\ UNCHANGED <<namespace, env, argv>>
Setup(r) ==
    /\ pc[r] = "setup"
    /\ "setup" \in namespace[r]
    /\ calls' = [calls EXCEPT ![r] = Append(@, SetupKwargs)]
    /\ pc' = [pc EXCEPT ![r] = "done"]
    /\ UNCHANGED <<namespace, env, argv>>

Next == \E r \in Runs : Import(r) \/ Setup(r)

Spec == Init /\ [][Next]_vars

\* ---- helpers of the properties ----
Called(r) == Len(calls[r]) >= 1
Kw(r) == calls[r][1]

\* C1: whenever a run has called setup(), the name keyword of every call is
\* the string 'warwick.observatory.rg11', whatever the run's environment and
\* command line.
C1_Name ==
    \A r \in Runs : \A i \in 1..Len(calls[r]) :
        calls[r][i].name = PyStr("warwick.observatory.rg11")
C1_Witness ==
    \E r \in Runs : Called(r) /\ env[r] # 0 /\ argv[r] # <<>> /\ Kw(r).name.type = "str"

\* C2: the packages keyword is a list of exactly one entry, the string
\* 'warwick.observatory.rg11', and that entry equals the name keyword.
C2_Packages ==
    \A r \in Runs : \A i \in 1..Len(calls[r]) :
        /\ calls[r][i].packages.type = "list"
        /\ Len(calls[r][i].packages.val) = 1
        /\ calls[r][i].packages.val[1] = PyStr("warwick.observatory.rg11")
        /\ calls[r][i].packages.val[1] = calls[r][i].name
C2_Witness ==
    \E r \in Runs : Called(r) /\ Len(Kw(r).packages.val) > 0

\* C3: the version keyword is the string '0', not the integer 0, in every
\* call of every run.
C3_Version ==
    \A r \in Runs : \A i \in 1..Len(calls[r]) :
        /\ calls[r][i].version.type = "str"
        /\ calls[r][i].version.val = "0"
C3_Witness ==
    \E r \in Runs : Called(r) /\ Kw(r).version.val = "0" /\ pc[r] = "done"

\* C4 as stated: the license keyword has the value 'GPLv3'.
C4_LicenseAsClaimed ==
    \A r \in Runs : \A i \in 1..Len(calls[r]) :
        calls[r][i].license = PyStr("GPLv3")
\* C4 as amended: the license keyword is the string 'GNU GPLv3'.
C4_License ==
    \A r \in Runs : \A i \in 1..Len(calls[r]) :
        calls[r][i].license = PyStr("GNU GPLv3")
C4_Witness ==
    \E r \in Runs : Called(r) /\ Kw(r).license.type = "str"

\* C5 as stated: the description keyword is the text
\* 'common backend code for the rg11 multiplexer daemon', with a small c.
C5_DescriptionAsClaimed ==
    \A r \in Runs : \A i \in 1..Len(calls[r]) :
        calls[r][i].description = PyStr("common backend code for the rg11 multiplexer daemon")
\* C5 as amended: the description keyword is the string
\* 'Common backend code for the rg11 multiplexer daemon', with a capital C.
C5_Description ==
    \A r \in Runs : \A i \in 1..Len(calls[r]) :
        calls[r][i].description = PyStr("Common backend code for the rg11 multiplexer daemon")
C5_Witness ==
    \E r \in Runs : Called(r) /\ Kw(r).description.type = "str"

\* C6: any two runs that have called setup(), whatever environments and
\* command lines they were started with, passed the same keyword values, and
\* once a run has made its call no step of any run changes what was passed.
C6_SameCalls ==
    \A r1, r2 \in Runs : (Called(r1) /\ Called(r2)) => Kw(r1) = Kw(r2)
C6_NeverMutated ==
    \A r \in Runs : Called(r) => (Called(r)' /\ Kw(r)' = Kw(r))
C6_Constant == [](C6_SameCalls) /\ [][C6_NeverMutated]_vars
C6_Witness ==
    \E r1, r2 \in Runs :
        /\ r1 # r2
        /\ Called(r1) /\ Called(r2)
        /\ env[r1] # env[r2]
        /\ argv[r1] # argv[r2]

C8_FieldsAsClaimed ==
    \A r \in Runs : \A i \in 1..Len(calls[r]) :
        DOMAIN calls[r][i] = {"name", "version", "license", "author", "author_email", "url"}
\* C8 as amended: the keywords passed to setup() are exactly name, version,
\* packages, author, description, license, author_email and url.
C8_Fields ==
    \A r \in Runs : \A i \in 1..Len(calls[r]) :
        DOMAIN calls[r][i] = {"name", "version", "packages", "author",
                              "description", "license", "author_email", "url"}
C8_Witness ==
    \E r \in Runs : Called(r) /\ "url" \in DOMAIN Kw(r) /\ pc[r] = "done"
====
